---- MODULE Spec2Model ----
(***************************************************************************)
(* State-machine model of sqlite3_spatialite_app (src/main.cpp).           *)
(*                                                                         *)
(* One process run is: parse_args (a getopt_long loop), the switch on      *)
(* example_id, then run_example_1 or run_example_2.  Every call into       *)
(* SQLite / SpatiaLite whose status the code inspects is a step whose      *)
(* outcome is chosen by the environment.  The database files named with    *)
(* -n persist from one run to the next; the in-memory database is fresh    *)
(* in every run.                                                           *)
(***************************************************************************)
EXTENDS Integers, Sequences, FiniteSets, TLC

\* ---------------------------------------------------------------- bounds
\* Largest number of command-line words (argc - 1) a run is started with.
MaxArgs == 4
\* Number of consecutive runs of the program against the same files.
MaxRuns == 2

\* ------------------------------------------------------ command-line words
\* A word of argv is a sequence of characters.
HELP_SHORT == <<"-", "h">>
HELP_LONG  == <<"-", "-", "h", "e", "l", "p">>
DbFile     == <<"d", "b">>

HelpWords == {HELP_SHORT, HELP_LONG}

\* Words the environment may pass as the argument of -i.
IdArgs == { <<"1">>, <<"2">>, <<"0">>, <<"3">>, <<"2", "5", "7">>,
            <<"2", "5", "8">>, <<"-", "2", "5", "5">>, HELP_LONG }
\* Words the environment may pass as the argument of -n.
NameArgs == { DbFile, HELP_LONG }

DigitChars == <<"0", "1", "2", "3", "4", "5", "6", "7", "8", "9">>

IsDigit(c) == \E d \in 1..10 : DigitChars[d] = c

DigitVal(c) == (CHOOSE d \in 1..10 : DigitChars[d] = c) - 1

RECURSIVE AtoiDigits(_, _, _)
AtoiDigits(s, i, acc) ==
    IF i > Len(s) \/ ~IsDigit(s[i]) THEN acc
    ELSE AtoiDigits(s, i + 1, acc * 10 + DigitVal(s[i]))

\* atoi: an optional sign, then the leading decimal digits; 0 when there are none.
Atoi(s) ==
    IF s = <<>> THEN 0
    ELSE IF s[1] = "-" THEN 0 - AtoiDigits(s, 2, 0)
    ELSE IF s[1] = "+" THEN AtoiDigits(s, 2, 0)
    ELSE AtoiDigits(s, 1, 0)

\* The conversion of an int to uint8_t (example_id = atoi(optarg)).
ToUint8(n) == n % (2 ^ 8)

\* ------------------------------------------------------------ fixed data
\* run_example_1's places, in order.
Places1 == <<"Rio de Janeiro", "Foz do Iguacu", "Fernando de Noronha">>
\* run_example_2's places, in order.
Places2 == <<"Rio de Janeiro", "Foz do Iguacu", "Fernando de Noronha",
             "Null Island", "New York">>

\* A database with no table at all.
EmptyDb == [srs |-> FALSE, points |-> FALSE, geom |-> FALSE,
            rows |-> <<>>, location |-> FALSE]

\* The database files the command line can name.
FileNames == NameArgs

VARIABLES
    runs,         \* number of runs started so far
    posix,        \* POSIXLY_CORRECT is set in the run's environment
    pc,           \* position of the running process ("idle": none is running)
    optind,       \* number of words of argv getopt_long has consumed
    operands,     \* number of non-option words found in argv
    helpSeen,     \* roles in which a -h / --help word occurred in argv
    example_id,   \* main's uint8_t example_id
    given,        \* the integer atoi read from the last -i argument
    in_memory_db, \* main's in_memory_db
    db_name,      \* main's db_name (a word), meaningful when ~in_memory_db
    usage,        \* show_usage has printed
    diag,         \* an error diagnostic was written to standard error
    ending,       \* "none" | "return" | "exit" | "terminate"
    exitCode,     \* the process exit code, -1 while there is none
    handle,       \* db_handle: "none" | "open" | "closed"
    cache,        \* the connection cache: "none" | "live" | "freed"
    closeCalls,   \* calls of sqlite3_close in this run
    cleanupCalls, \* calls of spatialite_cleanup_ex in this run
    shutdownCalls,\* calls of spatialite_shutdown in this run
    useAfterClose,\* db_handle was used after it had been closed
    openResult,   \* sqlite3_open_v2 in this run: "none" | "ok" | "failed"
    sqlLog,       \* the SQL statements issued in this run, in order
    failedAt,     \* the statement whose failure ended the work, or "none"
    pending,      \* rows inserted in the open transaction
    idx,          \* loop index over the places
    ret,          \* the value the running example returns after teardown
    stepLog,      \* Example 2: the sqlite3_step outcome of each query
    report,       \* Example 2: what was printed for each place
    srsAtCheck,   \* "unchecked" | "present" | "absent": spatial_ref_sys when checked
    initIssued,   \* per file: InitSpatialMetaData statements issued, over all runs
    files,        \* per file name: the committed database
    mem           \* the in-memory database of the run

argvVars == <<posix, optind, operands, helpSeen, example_id, given,
              in_memory_db, db_name>>
ioVars   == <<usage, diag, ending, exitCode>>
connVars == <<handle, cache, closeCalls, cleanupCalls, shutdownCalls,
              useAfterClose>>
workVars == <<sqlLog, failedAt, pending, idx, ret, stepLog, report, srsAtCheck>>
dbVars   == <<initIssued, files, mem>>
vars == <<runs, pc, openResult, argvVars, ioVars, connVars, workVars, dbVars>>

\* The state of a process that has just been started.
Fresh ==
    /\ optind = 0 /\ operands = 0 /\ helpSeen = {}
    /\ example_id = 0 /\ given = 0 /\ in_memory_db = TRUE /\ db_name = <<>>
    /\ usage = FALSE /\ diag = FALSE /\ ending = "none" /\ exitCode = -1
    /\ handle = "none" /\ cache = "none"
    /\ closeCalls = 0 /\ cleanupCalls = 0 /\ shutdownCalls = 0
    /\ useAfterClose = FALSE /\ openResult = "none"
    /\ sqlLog = <<>> /\ failedAt = "none" /\ pending = <<>> /\ idx = 1 /\ ret = 0
    /\ stepLog = <<>> /\ report = <<>> /\ srsAtCheck = "unchecked"
    /\ mem = EmptyDb

Init ==
    /\ runs = 0 /\ pc = "idle" /\ posix = FALSE
    /\ Fresh
    /\ initIssued = [f \in FileNames |-> 0]
    /\ files = [f \in FileNames |-> EmptyDb]


\* ------------------------------------------------------------ helpers
\* The database the connection works on.
Db == IF in_memory_db THEN mem ELSE files[db_name]

\* The connection's database becomes v (autocommit or COMMIT).
SetDb(v) ==
    IF in_memory_db
        THEN mem' = v /\ UNCHANGED files
        ELSE files' = [files EXCEPT ![db_name] = v] /\ UNCHANGED mem

\* A use of db_handle by a library call.
UseHandle == useAfterClose' = (useAfterClose \/ handle = "closed")

\* return code; from run_example_N and so from main.
Return(code) ==
    /\ pc' = "exited" /\ ending' = "return" /\ exitCode' = code

\* std::exit(code).
Exit(code) ==
    /\ pc' = "exited" /\ ending' = "exit" /\ exitCode' = code

\* ------------------------------------------------------------ process
\* The program is started: argv is read word by word by getopt_long below.
StartProcess ==
    /\ pc \in {"idle", "exited"}
    /\ runs < MaxRuns
    /\ runs' = runs + 1
    /\ pc' = "parse"
    /\ posix' \in BOOLEAN
    /\ optind' = 0 /\ operands' = 0 /\ helpSeen' = {}
    /\ example_id' = 0 /\ given' = 0 /\ in_memory_db' = TRUE /\ db_name' = <<>>
    /\ usage' = FALSE /\ diag' = FALSE /\ ending' = "none" /\ exitCode' = -1
    /\ handle' = "none" /\ cache' = "none"
    /\ closeCalls' = 0 /\ cleanupCalls' = 0 /\ shutdownCalls' = 0
    /\ useAfterClose' = FALSE /\ openResult' = "none"
    /\ sqlLog' = <<>> /\ failedAt' = "none" /\ pending' = <<>> /\ idx' = 1
    /\ ret' = 0 /\ stepLog' = <<>> /\ report' = <<>> /\ srsAtCheck' = "unchecked"
    /\ mem' = EmptyDb
    /\ UNCHANGED <<initIssued, files>>

\* ------------------------------------------------------------ parse_args
\* getopt_long returns 'i' with optarg a: example_id = atoi(optarg).
CaseI ==
    /\ pc = "parse"
    /\ optind + 2 <= MaxArgs
    /\ \E a \in IdArgs :
         /\ given' = Atoi(a)
         /\ example_id' = ToUint8(Atoi(a))
         /\ helpSeen' = helpSeen \cup (IF a \in HelpWords THEN {"optarg"} ELSE {})
    /\ optind' = optind + 2
    /\ UNCHANGED <<runs, openResult, pc, posix, operands, in_memory_db, db_name,
                   ioVars, connVars, workVars, dbVars>>

\* getopt_long returns 'n' with optarg a: db_name = optarg; in_memory_db = false.
CaseN ==
    /\ pc = "parse"
    /\ optind + 2 <= MaxArgs
    /\ \E a \in NameArgs :
         /\ db_name' = a
         /\ helpSeen' = helpSeen \cup (IF a \in HelpWords THEN {"optarg"} ELSE {})
    /\ in_memory_db' = FALSE
    /\ optind' = optind + 2
    /\ UNCHANGED <<runs, openResult, pc, posix, operands, example_id, given,
                   ioVars, connVars, workVars, dbVars>>

\* Mutant of UsageAndExit: the case prints the usage and breaks out of the
\* switch instead of exiting.
UsageAndBreak ==
    /\ usage' = TRUE
    /\ UNCHANGED <<pc, ending, exitCode>>

\* The body of case 'h' / case '?': show_usage(); std::exit(0).
UsageAndExit ==
    /\ usage' = TRUE
    /\ Exit(0)

\* getopt_long returns 'h': the word at optind is -h or --help.
CaseH ==
    /\ pc = "parse"
    /\ optind + 1 <= MaxArgs
    /\ helpSeen' = helpSeen \cup {"option"}
    /\ optind' = optind + 1
    /\ UsageAndExit
    /\ UNCHANGED <<runs, openResult, posix, operands, example_id, given, in_memory_db,
                   db_name, diag, connVars, workVars, dbVars>>

\* getopt_long returns '?': an unknown option, or -i / -n as the last word
\* with its argument missing.  getopt_long writes its own diagnostic.
CaseUnknown ==
    /\ pc = "parse"
    /\ optind + 1 <= MaxArgs
    /\ optind' = optind + 1
    /\ diag' = TRUE
    /\ UsageAndExit
    /\ UNCHANGED <<runs, openResult, posix, operands, helpSeen, example_id, given,
                   in_memory_db, db_name, connVars, workVars, dbVars>>

\* The word at optind is not an option.  By default getopt_long moves it
\* behind the options and goes on; with POSIXLY_CORRECT it stops scanning, and
\* the words after it (which may hold --help) are never examined.
Operand ==
    /\ pc = "parse"
    /\ optind + 1 <= MaxArgs
    /\ operands' = operands + 1
    /\ IF posix
         THEN /\ pc' = "parse_end"
              /\ \E restHelp \in BOOLEAN :
                   /\ restHelp => optind + 2 <= MaxArgs
                   /\ helpSeen' = helpSeen \cup
                                    (IF restHelp THEN {"operand"} ELSE {})
              /\ UNCHANGED optind
         ELSE /\ pc' = pc
              /\ optind' = optind + 1
              /\ UNCHANGED helpSeen
    /\ UNCHANGED <<runs, openResult, posix, example_id, given, in_memory_db, db_name,
                   ioVars, connVars, workVars, dbVars>>

\* The word at optind is "--": scanning stops and the k words after it are
\* operands, whatever they look like.
DashDash ==
    /\ pc = "parse"
    /\ optind + 1 <= MaxArgs
    /\ optind' = optind + 1
    /\ \E k \in 0..(MaxArgs - optind - 1) :
         /\ operands' = operands + k
         /\ \E restHelp \in BOOLEAN :
              /\ restHelp => k > 0
              /\ helpSeen' = helpSeen \cup (IF restHelp THEN {"operand"} ELSE {})
    /\ pc' = "parse_end"
    /\ UNCHANGED <<runs, openResult, posix, example_id, given, in_memory_db, db_name,
                   ioVars, connVars, workVars, dbVars>>

\* getopt_long returns -1: argv has no further word.
EndOfArgs ==
    /\ pc = "parse"
    /\ pc' = "parse_end"
    /\ UNCHANGED <<runs, openResult, argvVars, ioVars, connVars, workVars, dbVars>>

\* if (optind < argc) { "Unexpected argument"; std::exit(1); }
UnexpectedArgument ==
    /\ pc = "parse_end"
    /\ IF operands > 0
         THEN /\ diag' = TRUE
              /\ Exit(1)
              /\ UNCHANGED usage
         ELSE /\ pc' = "dispatch"
              /\ UNCHANGED ioVars
    /\ UNCHANGED <<runs, openResult, argvVars, connVars, workVars, dbVars>>

\* The example the switch on example_id selects (0: the default branch).
SwitchExample(id) == IF id = 1 THEN 1 ELSE IF id = 2 THEN 2 ELSE 0

\* main after parse_args: switch (example_id).
Dispatch ==
    /\ pc = "dispatch"
    /\ IF SwitchExample(example_id) # 0
         THEN /\ pc' = "open"
              /\ UNCHANGED ioVars
         ELSE /\ diag' = TRUE
              /\ Return(1)
              /\ UNCHANGED usage
    /\ UNCHANGED <<runs, openResult, argvVars, connVars, workVars, dbVars>>

ParseArgs ==
    \/ CaseI \/ CaseN \/ CaseH \/ CaseUnknown
    \/ Operand \/ DashDash \/ EndOfArgs \/ UnexpectedArgument


\* ------------------------------------------------- connection lifecycle
\* The SQL text of each step, as it appears in sqlLog.
SqlCheck  == "SELECT name FROM sqlite_master"
SqlInit   == "InitSpatialMetaData"
SqlImport == "ImportSHP"
SqlQuery  == "SELECT NM_UF WHERE ST_Within"

\* run_example_1's statements after the metadata bootstrap, in program order.
Ex1Sequence == <<"CREATE TABLE points",
                 "AddGeometryColumn(geom, 4326, POINT, XY)",
                 "BEGIN TRANSACTION",
                 "INSERT Rio de Janeiro",
                 "INSERT Foz do Iguacu",
                 "INSERT Fernando de Noronha",
                 "COMMIT">>

\* The statement of the insert loop for places[i].
InsertSql(i) == Ex1Sequence[3 + i]

\* An sqlite3_exec / sqlite3_prepare_v2 call on db_handle with text sql.
Issue(sql) ==
    /\ sqlLog' = Append(sqlLog, sql)
    /\ UseHandle

\* Mutant of OpenFailed: the branch returns 1 without sqlite3_close.
OpenFailedNoClose ==
    /\ openResult' = "failed"
    /\ diag' = TRUE
    /\ Return(1)
    /\ UNCHANGED <<handle, closeCalls, useAfterClose, cache, cleanupCalls,
                   shutdownCalls, usage>>

\* The failure branch of sqlite3_open_v2: print sqlite3_errmsg(db_handle),
\* then sqlite3_close(db_handle) and return 1.  Nothing else is released.
OpenFailed ==
    /\ openResult' = "failed"
    /\ handle' = "closed"
    /\ closeCalls' = closeCalls + 1
    /\ useAfterClose' = useAfterClose
    /\ diag' = TRUE
    /\ Return(1)
    /\ UNCHANGED <<cache, cleanupCalls, shutdownCalls, usage>>

\* sqlite3_open_v2 (Example 2 first sets SPATIALITE_SECURITY=relaxed).
OpenDatabase ==
    /\ pc = "open"
    /\ \E ok \in BOOLEAN :
         IF ok
           THEN /\ handle' = "open"
                /\ openResult' = "ok"
                /\ pc' = "alloc"
                /\ UNCHANGED <<cache, closeCalls, cleanupCalls, shutdownCalls,
                               useAfterClose, ioVars>>
           ELSE OpenFailed
    /\ UNCHANGED <<runs, argvVars, workVars, dbVars>>

\* cache = spatialite_alloc_connection(); spatialite_init_ex(db_handle, cache, 0).
AllocConnection ==
    /\ pc = "alloc"
    /\ cache' = "live"
    /\ UseHandle
    /\ pc' = "check"
    /\ UNCHANGED <<runs, openResult, argvVars, ioVars, handle, closeCalls, cleanupCalls,
                   shutdownCalls, workVars, dbVars>>

\* The step the example goes on with once the metadata is in place.
AfterBootstrap == IF SwitchExample(example_id) = 1 THEN "create" ELSE "import"

\* spatial_metadata_exists: prepare the sqlite_master query (a failure throws
\* std::runtime_error, which nothing catches: std::terminate), step it once,
\* finalize.  exists is true only when the step returned SQLITE_ROW.
spatial_metadata_exists ==
    /\ pc = "check"
    /\ Issue(SqlCheck)
    /\ \E prepared \in BOOLEAN :
         IF ~prepared
           THEN /\ diag' = TRUE
                /\ pc' = "exited" /\ ending' = "terminate" /\ exitCode' = -1
                /\ failedAt' = SqlCheck
                /\ UNCHANGED <<usage, srsAtCheck>>
           ELSE \E r \in {"row", "done", "error"} :
                /\ r = "row" => Db.srs
                /\ r = "done" => ~Db.srs
                /\ srsAtCheck' = IF Db.srs THEN "present" ELSE "absent"
                /\ pc' = IF r = "row" THEN AfterBootstrap ELSE "init"
                /\ UNCHANGED <<ioVars, failedAt>>
    /\ UNCHANGED <<runs, openResult, argvVars, handle, cache, closeCalls, cleanupCalls,
                   shutdownCalls, pending, idx, ret, stepLog, report, dbVars>>

\* A failed sqlite3_exec: the caller prints its message and calls
\* handle_error(db_handle, cache, err_msg), then returns 1.
ExecFailed(sql) ==
    /\ diag' = TRUE
    /\ failedAt' = sql
    /\ ret' = 1
    /\ pc' = "he_close"
    /\ UNCHANGED <<usage, ending, exitCode>>

\* sqlite3_exec of "SELECT InitSpatialMetaData(1);".
InitSpatialMetaData ==
    /\ pc = "init"
    /\ Issue(SqlInit)
    /\ initIssued' = IF in_memory_db THEN initIssued
                     ELSE [initIssued EXCEPT ![db_name] = @ + 1]
    /\ \E ok \in BOOLEAN :
         IF ok
           THEN /\ SetDb([Db EXCEPT !.srs = TRUE])
                /\ pc' = AfterBootstrap
                /\ UNCHANGED <<ioVars, failedAt, ret>>
           ELSE /\ ExecFailed(SqlInit)
                /\ UNCHANGED <<files, mem>>
    /\ UNCHANGED <<runs, openResult, argvVars, handle, cache, closeCalls, cleanupCalls,
                   shutdownCalls, pending, idx, stepLog, report, srsAtCheck>>

\* sqlite3_close(db_handle): SQLITE_OK closes the handle (rolling back an open
\* transaction); SQLITE_BUSY leaves it open.
SqliteClose ==
    /\ closeCalls' = closeCalls + 1
    /\ useAfterClose' = (useAfterClose \/ handle = "closed")
    /\ \E ok \in BOOLEAN :
         handle' = IF ok THEN "closed" ELSE handle

\* spatialite_cleanup_ex(cache).
SpatialiteCleanup ==
    /\ cleanupCalls' = cleanupCalls + 1
    /\ cache' = "freed"

\* Mutant of handle_error_close: handle_error releases the cache first, before
\* any sqlite3_close.
handle_error_cleanup_first ==
    /\ pc = "he_close"
    /\ SpatialiteCleanup
    /\ pc' = "he_cleanup"
    /\ UNCHANGED <<runs, openResult, argvVars, ioVars, handle, closeCalls,
                   shutdownCalls, useAfterClose, workVars, dbVars>>

\* handle_error: "Error: " << err_msg; sqlite3_free; sqlite3_close(db_handle).
handle_error_close ==
    /\ pc = "he_close"
    /\ SqliteClose
    /\ pc' = "he_cleanup"
    /\ UNCHANGED <<runs, openResult, argvVars, ioVars, cache, cleanupCalls, shutdownCalls,
                   workVars, dbVars>>

\* handle_error: spatialite_cleanup_ex(cache).
handle_error_cleanup ==
    /\ pc = "he_cleanup"
    /\ SpatialiteCleanup
    /\ pc' = "he_shutdown"
    /\ UNCHANGED <<runs, openResult, argvVars, ioVars, handle, closeCalls, shutdownCalls,
                   useAfterClose, workVars, dbVars>>

\* handle_error: spatialite_shutdown(); the caller then returns 1.
handle_error_shutdown ==
    /\ pc = "he_shutdown"
    /\ shutdownCalls' = shutdownCalls + 1
    /\ Return(ret)
    /\ UNCHANGED <<runs, openResult, argvVars, usage, diag, handle, cache, closeCalls,
                   cleanupCalls, useAfterClose, workVars, dbVars>>

handle_error ==
    handle_error_close \/ handle_error_cleanup \/ handle_error_shutdown

Bootstrap ==
    OpenDatabase \/ AllocConnection \/ spatial_metadata_exists
        \/ InitSpatialMetaData


\* ------------------------------------------------------------ Example 1
connUnchanged == UNCHANGED <<handle, cache, closeCalls, cleanupCalls, shutdownCalls>>

\* CREATE TABLE IF NOT EXISTS points (id INTEGER PRIMARY KEY AUTOINCREMENT NOT NULL).
CreateTable ==
    /\ pc = "create"
    /\ Issue(Ex1Sequence[1])
    /\ \E ok \in BOOLEAN :
         IF ok
           THEN /\ SetDb([Db EXCEPT !.points = TRUE])
                /\ pc' = "addgeom"
                /\ UNCHANGED <<ioVars, failedAt, ret>>
           ELSE /\ ExecFailed(Ex1Sequence[1])
                /\ UNCHANGED <<files, mem>>
    /\ connUnchanged
    /\ UNCHANGED <<runs, openResult, argvVars, pending, idx, stepLog, report, srsAtCheck,
                   initIssued>>

\* SELECT AddGeometryColumn('points', 'geom', 4326, 'POINT', 'XY').
AddGeometryColumn ==
    /\ pc = "addgeom"
    /\ Issue(Ex1Sequence[2])
    /\ \E ok \in BOOLEAN :
         IF ok
           THEN /\ SetDb([Db EXCEPT !.geom = TRUE])
                /\ pc' = "begin"
                /\ UNCHANGED <<ioVars, failedAt, ret>>
           ELSE /\ ExecFailed(Ex1Sequence[2])
                /\ UNCHANGED <<files, mem>>
    /\ connUnchanged
    /\ UNCHANGED <<runs, openResult, argvVars, pending, idx, stepLog, report, srsAtCheck,
                   initIssued>>

\* BEGIN TRANSACTION;
BeginTransaction ==
    /\ pc = "begin"
    /\ Issue(Ex1Sequence[3])
    /\ \E ok \in BOOLEAN :
         IF ok
           THEN /\ pc' = "insert"
                /\ UNCHANGED <<ioVars, failedAt, ret>>
           ELSE ExecFailed(Ex1Sequence[3])
    /\ connUnchanged
    /\ UNCHANGED <<runs, openResult, argvVars, pending, idx, stepLog, report, srsAtCheck,
                   dbVars>>

\* The row GeomFromText(place.second, 4326) makes for places[i].
PointRow(i) == [place |-> Places1[i], srid |-> 4326, geomNull |-> FALSE]

\* Mutant of InsertFailed: the failure is printed and the program goes on to
\* COMMIT instead of tearing down and returning.
InsertFailedGoesOn(i) ==
    /\ diag' = TRUE
    /\ failedAt' = InsertSql(i)
    /\ ret' = 1
    /\ pc' = "commit"
    /\ UNCHANGED <<usage, ending, exitCode>>

\* What a failed INSERT does: print, handle_error, return 1.
InsertFailed(i) == ExecFailed(InsertSql(i))

\* One iteration of the insert loop.
InsertPlace ==
    /\ pc = "insert"
    /\ Issue(InsertSql(idx))
    /\ \E ok \in BOOLEAN :
         IF ok
           THEN /\ pending' = Append(pending, PointRow(idx))
                /\ idx' = idx + 1
                /\ pc' = IF idx = Len(Places1) THEN "commit" ELSE "insert"
                /\ UNCHANGED <<ioVars, failedAt, ret>>
           ELSE /\ InsertFailed(idx)
                /\ UNCHANGED <<pending, idx>>
    /\ connUnchanged
    /\ UNCHANGED <<runs, openResult, argvVars, stepLog, report, srsAtCheck, dbVars>>

\* COMMIT: the rows of the transaction join the table.
Commit ==
    /\ pc = "commit"
    /\ Issue(Ex1Sequence[7])
    /\ \E ok \in BOOLEAN :
         IF ok
           THEN /\ SetDb([Db EXCEPT !.rows = @ \o pending])
                /\ pending' = <<>>
                /\ ret' = 0
                /\ pc' = "fin_close"
                /\ UNCHANGED <<ioVars, failedAt>>
           ELSE /\ ExecFailed(Ex1Sequence[7])
                /\ UNCHANGED <<files, mem, pending>>
    /\ connUnchanged
    /\ UNCHANGED <<runs, openResult, argvVars, idx, stepLog, report, srsAtCheck, initIssued>>

run_example_1 ==
    CreateTable \/ AddGeometryColumn \/ BeginTransaction \/ InsertPlace \/ Commit

\* ------------------------------------------------------------ Example 2
\* SELECT ImportSHP('../shp/BR_UF_2022', 'location', 'UTF-8').
ImportSHP ==
    /\ pc = "import"
    /\ Issue(SqlImport)
    /\ \E ok \in BOOLEAN :
         IF ok
           THEN /\ SetDb([Db EXCEPT !.location = TRUE])
                /\ pc' = "query"
                /\ UNCHANGED <<ioVars, failedAt, ret>>
           ELSE /\ ExecFailed(SqlImport)
                /\ UNCHANGED <<files, mem>>
    /\ connUnchanged
    /\ UNCHANGED <<runs, openResult, argvVars, pending, idx, stepLog, report, srsAtCheck,
                   initIssued>>

\* What the loop prints for a place after sqlite3_step returned r.
Reported(r) == IF r = "row" THEN "region name" ELSE "Not found"

\* One iteration of the query loop: prepare (a failure tears down in place
\* and returns 1), step once, print, finalize.
QueryPlace ==
    /\ pc = "query"
    /\ Issue(SqlQuery)
    /\ \E prepared \in BOOLEAN :
         IF ~prepared
           THEN /\ diag' = TRUE
                /\ failedAt' = SqlQuery
                /\ ret' = 1
                /\ pc' = "pf_close"
                /\ UNCHANGED <<usage, ending, exitCode, stepLog, report, idx>>
           ELSE \E r \in {"row", "done", "error"} :
                /\ stepLog' = Append(stepLog, r)
                /\ report' = Append(report, Reported(r))
                /\ idx' = idx + 1
                /\ ret' = 0
                /\ pc' = IF idx = Len(Places2) THEN "fin_close" ELSE "query"
                /\ UNCHANGED <<ioVars, failedAt>>
    /\ connUnchanged
    /\ UNCHANGED <<runs, openResult, argvVars, pending, srsAtCheck, dbVars>>

\* The prepare-failure branch: sqlite3_close(db_handle).
prepare_failed_close ==
    /\ pc = "pf_close"
    /\ SqliteClose
    /\ pc' = "pf_cleanup"
    /\ UNCHANGED <<runs, openResult, argvVars, ioVars, cache, cleanupCalls, shutdownCalls,
                   workVars, dbVars>>

\* The prepare-failure branch: spatialite_cleanup_ex(cache).
prepare_failed_cleanup ==
    /\ pc = "pf_cleanup"
    /\ SpatialiteCleanup
    /\ pc' = "pf_shutdown"
    /\ UNCHANGED <<runs, openResult, argvVars, ioVars, handle, closeCalls, shutdownCalls,
                   useAfterClose, workVars, dbVars>>

\* The prepare-failure branch: spatialite_shutdown(); return 1.
prepare_failed_shutdown ==
    /\ pc = "pf_shutdown"
    /\ shutdownCalls' = shutdownCalls + 1
    /\ Return(1)
    /\ UNCHANGED <<runs, openResult, argvVars, usage, diag, handle, cache, closeCalls,
                   cleanupCalls, useAfterClose, workVars, dbVars>>

run_example_2 ==
    ImportSHP \/ QueryPlace \/ prepare_failed_close \/ prepare_failed_cleanup
        \/ prepare_failed_shutdown

\* --------------------------------------------- normal completion (both)
\* ret = sqlite3_close(db_handle); a failure is only reported
\* ("Error closing database: " << sqlite3_errmsg(db_handle)).
final_close ==
    /\ pc = "fin_close"
    /\ closeCalls' = closeCalls + 1
    /\ \E ok \in BOOLEAN :
         /\ handle' = IF ok THEN "closed" ELSE handle
         /\ diag' = (diag \/ ~ok)
         /\ useAfterClose' = (useAfterClose \/ handle = "closed")
    /\ pc' = "fin_cleanup"
    /\ UNCHANGED <<runs, openResult, argvVars, usage, ending, exitCode, cache, cleanupCalls,
                   shutdownCalls, workVars, dbVars>>

\* spatialite_cleanup_ex(cache).
final_cleanup ==
    /\ pc = "fin_cleanup"
    /\ SpatialiteCleanup
    /\ pc' = "fin_shutdown"
    /\ UNCHANGED <<runs, openResult, argvVars, ioVars, handle, closeCalls, shutdownCalls,
                   useAfterClose, workVars, dbVars>>

\* spatialite_shutdown(); "Example N Done."; return 0.
final_shutdown ==
    /\ pc = "fin_shutdown"
    /\ shutdownCalls' = shutdownCalls + 1
    /\ Return(0)
    /\ UNCHANGED <<runs, openResult, argvVars, usage, diag, handle, cache, closeCalls,
                   cleanupCalls, useAfterClose, workVars, dbVars>>

Completion == final_close \/ final_cleanup \/ final_shutdown

\* ------------------------------------------------------------ the program
Next ==
    \/ StartProcess
    \/ ParseArgs
    \/ Dispatch
    \/ Bootstrap
    \/ handle_error
    \/ run_example_1
    \/ run_example_2
    \/ Completion

Spec == Init /\ [][Next]_vars


\* ================================================================ claims
Range(q) == { q[i] : i \in 1..Len(q) }

\* sqlite3_open_v2 has been called in this run.
OpenAttempted == openResult # "none"

\* The process has ended.
Exited == pc = "exited"

\* The statements of the run other than the metadata check and bootstrap.
IsWorkSql(x) == x \notin {SqlCheck, SqlInit}
Work == SelectSeq(sqlLog, IsWorkSql)

\* ---------------------------------------------------------------- C1
\* C1: every run whose open succeeded ends with teardown done exactly once:
\* one sqlite3_close, one spatialite_cleanup_ex, one spatialite_shutdown, the
\* handle closed and the cache released -- on every exit path.
C1_TeardownExactlyOnce ==
    (Exited /\ openResult = "ok") =>
        /\ closeCalls = 1 /\ cleanupCalls = 1 /\ shutdownCalls = 1
        /\ handle = "closed" /\ cache = "freed"

\* ---------------------------------------------------------------- C2
\* C2 as stated: the cache is live only while its handle is open (it is
\* released no later than the handle is closed).
C2_CacheLiveOnlyWhileOpen ==
    cache = "live" => (openResult = "ok" /\ handle = "open")

\* C2 as amended: the cache is attached only after a successful open and is
\* never released before sqlite3_close has been called; on every teardown path
\* the close comes first and the cache is released in the very next step, so a
\* closed handle with a live cache exists only in that one intermediate state,
\* and every run that returns after a successful open has released the cache.
C2_CacheReleasedRightAfterClose ==
    /\ cache # "none" => openResult = "ok"
    /\ cache = "freed" => closeCalls >= 1
    /\ (cache = "live" /\ closeCalls >= 1) =>
           pc \in {"he_cleanup", "pf_cleanup", "fin_cleanup"}
    /\ (Exited /\ ending = "return" /\ openResult = "ok") => cache = "freed"

\* A teardown through handle_error has completed: closed, then released.
C2_Witness ==
    /\ Exited /\ ending = "return" /\ ret = 1 /\ failedAt = SqlInit
    /\ handle = "closed" /\ cache = "freed"

\* ---------------------------------------------------------------- C3
\* C3: an example is entered only when the value given to -i is exactly 1 or
\* exactly 2; for any other given value the process reports the unknown id and
\* returns 1 without opening the database or issuing SQL.
C3_OnlyExactIds ==
    /\ OpenAttempted => given \in {1, 2}
    /\ (Exited /\ ending = "return" /\ given \notin {1, 2}) =>
           (exitCode = 1 /\ diag /\ ~OpenAttempted /\ sqlLog = <<>>)

\* ---------------------------------------------------------------- C4
\* C4 as stated, for the positions it names: whenever argv holds -h or --help
\* as an option or directly after -n or -i (here with no positional argument
\* beside it), the process prints the usage text and exits 0, and no database
\* is opened.
C4_HelpAnywhereExits ==
    ((helpSeen \cap {"option", "optarg"}) # {} /\ operands = 0) =>
        /\ ~OpenAttempted /\ sqlLog = <<>>
        /\ Exited => (exitCode = 0 /\ usage)

\* C4 as amended: whenever getopt_long reaches a -h or --help word as an option
\* (the word is not the argument of a preceding -i / -n, does not follow "--",
\* and with POSIXLY_CORRECT set does not follow a positional argument), the
\* process prints the usage text and exits 0 at once, whatever other options
\* were given before it, and no database is opened.
C4_HelpOptionExits ==
    "option" \in helpSeen =>
        /\ Exited /\ ending = "exit" /\ exitCode = 0 /\ usage
        /\ ~OpenAttempted /\ sqlLog = <<>>

\* --help reached as an option after -i 3 (an invalid example id).
C4_Witness ==
    /\ "option" \in helpSeen /\ given = 3 /\ optind = 3 /\ Exited

\* ---------------------------------------------------------------- C5
\* C5: a run that entered an example, or returned from main, ends with exit
\* code 1 when an error diagnostic was printed and 0 otherwise, and never by
\* abnormal termination.
C5_ExitCodeOneOnEveryError ==
    (Exited /\ (OpenAttempted \/ ending = "return")) =>
        /\ ending # "terminate"
        /\ exitCode = (IF diag THEN 1 ELSE 0)

\* ---------------------------------------------------------------- C6
\* C6: after every successful run of Example 1 the points table holds exactly
\* the 3 fixed rows, each with a non-null geometry under SRID 4326.
C6_ExactlyThreeRows ==
    (Exited /\ SwitchExample(example_id) = 1 /\ ending = "return"
            /\ exitCode = 0) =>
        /\ Len(Db.rows) = 3
        /\ \A i \in 1..Len(Db.rows) :
             /\ Db.rows[i].place = Places1[i]
             /\ Db.rows[i].srid = 4326
             /\ ~Db.rows[i].geomNull

\* ---------------------------------------------------------------- C7
\* C7: in a run that got past the existence check, InitSpatialMetaData is
\* issued if and only if spatial_ref_sys was absent when the run checked.
C7_InitIffAbsent ==
    (srsAtCheck # "unchecked" /\ pc # "init") =>
        ((SqlInit \in Range(sqlLog)) <=> (srsAtCheck = "absent"))

\* ---------------------------------------------------------------- C8
\* C8: for each place queried in Example 2, "Not found" is printed only when
\* the query's step completed with no row.
C8_NotFoundOnlyWhenNoRow ==
    \A i \in 1..Len(report) :
        (report[i] = "Not found") <=> (stepLog[i] = "done")

\* ---------------------------------------------------------------- C9
\* C9: when sqlite3_open_v2 fails, the run returns 1 with no cache allocated,
\* no SQL issued, the handle closed by exactly one sqlite3_close, no later use
\* of the handle, and no cleanup or shutdown of an extension never set up.
C9_OpenFailureClean ==
    openResult = "failed" =>
        /\ Exited /\ ending = "return" /\ exitCode = 1 /\ diag
        /\ cache = "none" /\ cleanupCalls = 0
        /\ sqlLog = <<>>
        /\ closeCalls = 1 /\ handle = "closed" /\ ~useAfterClose

\* A failed open of a named database file in Example 2.
C9_Witness ==
    /\ openResult = "failed" /\ Exited /\ ~in_memory_db
    /\ SwitchExample(example_id) = 2

\* ---------------------------------------------------------------- C10
\* C10: in Example 1 the statements after the bootstrap are a prefix of the
\* fixed sequence; nothing is issued after the statement that failed, inserts
\* come only with the table and geometry column in place, and a run whose
\* statement failed returns 1.
C10_StatementPrefix ==
    SwitchExample(example_id) = 1 =>
        /\ Len(Work) <= Len(Ex1Sequence)
        /\ Work = SubSeq(Ex1Sequence, 1, Len(Work))
        /\ failedAt # "none" => sqlLog[Len(sqlLog)] = failedAt
        /\ Len(Work) >= 4 => (Db.points /\ Db.geom)
        /\ (Exited /\ failedAt \in Range(Ex1Sequence)) =>
               (ending = "return" /\ exitCode = 1)

\* The second insert failed: the run ended after it with exit code 1.
C10_Witness ==
    /\ Exited /\ SwitchExample(example_id) = 1 /\ failedAt = InsertSql(2)
    /\ Len(Work) = 5 /\ exitCode = 1

====
